---- MODULE Spec2Model ----
(***************************************************************************)
(* Existential-to-generic argument specialization                          *)
(* (lib/SILOptimizer/FunctionSignatureTransforms/ExistentialTransform.cpp) *)
(*                                                                         *)
(* The model follows one ExistentialTransform per invocation of the pass   *)
(* on a function F of a module: the specialized name and function type are *)
(* computed, the generic twin is looked up in the module's function table  *)
(* or created and populated by ExistentialSpecializerCloner, and F is      *)
(* rewritten into a thunk that calls the twin.  SIL is modelled as         *)
(* sequences of instruction records.                                       *)
(*                                                                         *)
(* Argument positions are 1..NumArgs here; position p is ArgDesc.Index p-1 *)
(* of the source.  Generic parameter depths and indices are the source's   *)
(* numbers (they start at 0).                                              *)
(***************************************************************************)
EXTENDS Integers, Sequences, FiniteSets, TLC

\* Number of parameters of the function being transformed.
NumArgs == 2
\* Largest generic-parameter depth count of the original function's signature.
MaxDepth == 1

ArgIdx == 1..NumArgs

(***************************************************************************)
(* Types.  Every type is a record of the same shape so that types of       *)
(* different kinds compare unequal.                                        *)
(***************************************************************************)
Ty(kind, constraint, repr, depth, index) ==
    [kind |-> kind, constraint |-> constraint, repr |-> repr,
     depth |-> depth, index |-> index]

NoType == Ty("none", 0, "None", 0, 0)
IntTy == Ty("concrete", 0, "None", 0, 0)
NeverTy == Ty("never", 0, "None", 0, 0)
ErrorTy == Ty("error", 0, "None", 0, 0)

\* `any P`: an existential type over protocol (composition) number c, whose
\* preferred representation is repr.
ExistentialTy(c, repr) == Ty("existential", c, repr, 0, 0)

\* The constraint type P of `any P`.
ConstraintTy(c) == Ty("protocol", c, "None", 0, 0)

\* GenericTypeParamType::getType(Depth, Index, Ctx)
GenericTypeParamType(depth, index) == Ty("generic", 0, "None", depth, index)

\* GenericEnvironment::mapTypeIntoContext on a generic parameter: its archetype.
mapTypeIntoContext(t) ==
    IF t.kind = "generic" THEN Ty("archetype", 0, "None", t.depth, t.index) ELSE t

\* ExistentialArchetypeType::getAny(SwiftType): the opened archetype of an
\* existential type.
OpenedArchetype(t) == Ty("opened", t.constraint, "None", 0, 0)

\* SILType::getPreferredExistentialRepresentation
getPreferredExistentialRepresentation(t) == t.repr

(***************************************************************************)
(* Parameter conventions.                                                  *)
(***************************************************************************)
IndirectConventions == {"Indirect_In", "Indirect_In_Guaranteed"}
DirectConventions == {"Direct_Owned", "Direct_Guaranteed", "Direct_Unowned"}

\* SILParameterInfo::isConsumed
isConsumedConvention(conv) == conv \in {"Indirect_In", "Direct_Owned"}

\* The category of the SIL argument type of a parameter of that convention.
CategoryOf(conv) == IF conv \in IndirectConventions THEN "address" ELSE "object"

\* ValueOwnershipKind(F, Type, ArgumentConvention): the ownership kind of a
\* function argument.
ValueOwnershipKind(category, conv) ==
    IF category = "address" THEN "None"
    ELSE IF conv = "Direct_Owned" THEN "Owned"
    ELSE IF conv = "Direct_Guaranteed" THEN "Guaranteed"
    ELSE IF conv = "Direct_Unowned" THEN "Unowned"
    ELSE "None"

(***************************************************************************)
(* Generic signatures.                                                     *)
(***************************************************************************)
GenericSignature(params, reqs) == [params |-> params, reqs |-> reqs]

\* The original function's invocation generic signature with d levels of
\* generic parameters (one parameter per level).
OrigGenericSignature(d) ==
    GenericSignature([k \in 1..d |-> GenericTypeParamType(k - 1, 0)], <<>>)

\* GenericSignature::getNextDepth: 0 for the empty signature, else the
\* deepest parameter's depth plus one.
getNextDepth(sig) ==
    IF sig.params = <<>> THEN 0
    ELSE 1 + (CHOOSE d \in {sig.params[k].depth : k \in 1..Len(sig.params)} :
                \A k \in 1..Len(sig.params) : sig.params[k].depth <= d)

\* buildGenericSignature(Ctx, base, addedParams, addedRequirements)
buildGenericSignature(base, addedParams, addedReqs) ==
    GenericSignature(base.params \o addedParams, base.reqs \o addedReqs)

\* GenericTypeParamType::getReducedType(sig): a parameter constrained only by
\* conformance requirements is its own reduced type.
getReducedType(gp, sig) == gp

Requirement(kind, subject, constraint) ==
    [kind |-> kind, subject |-> subject, constraint |-> constraint]

(***************************************************************************)
(* SIL values, instructions and blocks.                                    *)
(***************************************************************************)
V(k, i) == [k |-> k, i |-> i]
NoValue == V("none", 0)

Inst(op, dst, src, flag) ==
    [op |-> op, dst |-> dst, src |-> src, flag |-> flag, args |-> <<>>]

Term(op, src, succ) == [op |-> op, src |-> src, succ |-> succ]

Block(args, insts, term) == [args |-> args, insts |-> insts, term |-> term]

\* A function (block) argument.
Argument(ty, category, decl, flags) ==
    [ty |-> ty, category |-> category, decl |-> decl, flags |-> flags]

SeqRange(s) == {s[k] : k \in 1..Len(s)}

RECURSIVE Reverse(_)
Reverse(s) == IF s = <<>> THEN <<>> ELSE Append(Reverse(Tail(s)), Head(s))

RECURSIVE Flatten(_)
Flatten(ss) == IF ss = <<>> THEN <<>> ELSE Head(ss) \o Flatten(Tail(ss))

Perms(S) ==
    {p \in [1..Cardinality(S) -> S] :
        \A a, b \in 1..Cardinality(S) : a # b => p[a] # p[b]}

(***************************************************************************)
(* State.                                                                  *)
(***************************************************************************)
VARIABLES
    F,                        \* the function being transformed (SILFunction *F)
    origF,                    \* F as the pass found it, before any rewrite
    ArgumentDescList,         \* one ArgumentDescriptor per parameter of F
    ExistentialArgDescriptor, \* SmallDenseMap<int, ETAD>, in iteration order
    ArgToGenericTypeMap,      \* SmallDenseMap<int, GenericTypeParamType *>
    Name,                     \* the specialized name
    NewFTy,                   \* the specialized function type
    GenericParams,            \* genericParams of the last type computation
    Requirements,             \* requirements of the last type computation
    NewF,                     \* the twin: its index in table, 0 when unset
    table,                    \* the module's specialized functions, by creation
    AllocStackInsts,          \* the cloner's AllocStackInsts
    CleanupValues,            \* the cloner's CleanupValues
    entryArgs,                \* the cloner's entryArgs
    Temps,                    \* populateThunkBody's Temps
    ApplyArgs,                \* populateThunkBody's ApplyArgs
    GenericToOpenedTypeMap,   \* populateThunkBody's GenericToOpenedTypeMap
    SubMap,                   \* the substitutions of the call, per callee parameter
    lookupAssertFailed,       \* the assert of the substitution lookup has fired
    created,                  \* number of FunctionBuilder.createFunction calls
    clonerRuns,               \* number of cloneAndPopulateFunction runs
    assertFailed,             \* an assert of the driver has fired
    pc                        \* position in createExistentialSpecializedFunction

vars == <<F, origF, ArgumentDescList, ExistentialArgDescriptor,
          ArgToGenericTypeMap, Name, NewFTy, GenericParams, Requirements, NewF,
          table, AllocStackInsts, CleanupValues, entryArgs, Temps, ApplyArgs,
          GenericToOpenedTypeMap, SubMap, lookupAssertFailed,
          created, clonerRuns, assertFailed, pc>>

(***************************************************************************)
(* The functions the pass is run on.                                       *)
(***************************************************************************)
\* What a parameter of F can be: a non-existential value, an opaque
\* existential (address-only) or a class existential (address or object).
ArgChoices ==
    {[ex |-> FALSE, repr |-> "None", conv |-> "Direct_Guaranteed"]}
    \cup {[ex |-> TRUE, repr |-> "Opaque", conv |-> c] : c \in IndirectConventions}
    \cup {[ex |-> TRUE, repr |-> "Class", conv |-> c] :
            c \in IndirectConventions \cup DirectConventions}

\* The AST type of parameter p of choice ch; the existential at position p
\* is `any P_p`.
ParamTy(p, ch) == IF ch.ex THEN ExistentialTy(p, ch.repr) ELSE IntTy

SILParameterInfo(ty, conv) == [ty |-> ty, conv |-> conv]

SILFunctionType(sig, repr, coroutine, calleeConv, params, yields, results, error) ==
    [sig |-> sig, repr |-> repr, coroutine |-> coroutine,
     calleeConv |-> calleeConv, params |-> params, yields |-> yields,
     results |-> results, error |-> error]

\* The exit blocks of a source function of type fty: a return unless the
\* function never returns, a throw if it has an error result, an unreachable.
ExitKinds(fty) ==
    (IF fty.results = <<NeverTy>> THEN <<>> ELSE <<"return">>)
    \o (IF fty.error # NoType THEN <<"throw">> ELSE <<>>)
    \o <<"unreachable">>

\* The body of a source function: an entry block that uses the arguments and
\* branches to the exit blocks.
OriginalBlocks(fty, n) ==
    LET exits == ExitKinds(fty) IN
    <<Block(<<>>,
            <<[Inst("body", NoValue, NoValue, "") EXCEPT
                 !.args = [p \in 1..n |-> V("arg", p)]]>>,
            Term("br", NoValue, [k \in 1..Len(exits) |-> k + 1]))>>
    \o [k \in 1..Len(exits) |-> Block(<<>>, <<>>, Term(exits[k], V("bodyval", k), <<>>))]

SourceFunction(choice, hasOwnership, hasError, result, depth) ==
    LET fty == SILFunctionType(
                   OrigGenericSignature(depth), "Method", "None", "Direct_Unowned",
                   [p \in ArgIdx |-> SILParameterInfo(ParamTy(p, choice[p]), choice[p].conv)],
                   <<>>, <<result>>, IF hasError THEN ErrorTy ELSE NoType)
    IN [name |-> [base |-> "f", idxs |-> {}],
        linkage |-> "public",
        ty |-> fty,
        args |-> [p \in ArgIdx |->
                    Argument(ParamTy(p, choice[p]), CategoryOf(choice[p].conv),
                             V("decl", p), V("flags", p))],
        thunk |-> "IsNotThunk",
        inline |-> "InlineDefault",
        hasOwnership |-> hasOwnership,
        blocks |-> OriginalBlocks(fty, NumArgs)]

\* The ArgumentDescriptor of parameter p of f.
ArgumentDescriptor(f, p) ==
    [Index |-> p, Arg |-> f.args[p], Decl |-> f.args[p].decl]

\* The ExistentialTransformArgumentDescriptor the candidate selection records
\* for a parameter of convention conv.
ExistentialTransformArgumentDescriptor(conv) ==
    [isConsumed |-> isConsumedConvention(conv),
     AccessType |-> IF isConsumedConvention(conv) THEN "Mutable" ELSE "Immutable"]

\* A SmallDenseMap is modelled by its entries in iteration (bucket) order;
\* the order depends on the keys' hashes, not on their values.
DenseMapFind(m, key) ==
    IF \E k \in 1..Len(m) : m[k].first = key
    THEN CHOOSE k \in 1..Len(m) : m[k].first = key
    ELSE 0

DenseMapKeys(m) == {m[k].first : k \in 1..Len(m)}

EmptyMap == [x \in {} |-> NoType]

Init ==
    \E choice \in [ArgIdx -> ArgChoices], hasOwnership \in BOOLEAN,
       hasError \in BOOLEAN, result \in {IntTy, NeverTy}, depth \in 0..MaxDepth :
      /\ \E p \in ArgIdx : choice[p].ex
      /\ LET f == SourceFunction(choice, hasOwnership, hasError, result, depth) IN
         /\ F = f
         /\ origF = f
         /\ ArgumentDescList = [p \in ArgIdx |-> ArgumentDescriptor(f, p)]
         /\ \E order \in Perms({p \in ArgIdx : choice[p].ex}) :
              ExistentialArgDescriptor =
                [k \in 1..Len(order) |->
                   [first |-> order[k],
                    second |-> ExistentialTransformArgumentDescriptor(choice[order[k]].conv)]]
      /\ ArgToGenericTypeMap = EmptyMap
      /\ Name = [base |-> "", idxs |-> {}]
      /\ NewFTy = NoType
      /\ GenericParams = <<>>
      /\ Requirements = <<>>
      /\ NewF = 0
      /\ table = <<>>
      /\ AllocStackInsts = <<>>
      /\ CleanupValues = <<>>
      /\ entryArgs = <<>>
      /\ Temps = <<>>
      /\ ApplyArgs = <<>>
      /\ GenericToOpenedTypeMap = EmptyMap
      /\ SubMap = <<>>
      /\ lookupAssertFailed = FALSE
      /\ created = 0
      /\ clonerRuns = 0
      /\ assertFailed = FALSE
      /\ pc = "start"

(***************************************************************************)
(* createExistentialSpecializedFunctionName                                *)
(***************************************************************************)
\* Mangler.setArgumentExistentialToGeneric(Idx) for every key, then
\* Mangler.mangle(): the name is decided by F and the set of indices.
Mangle(f, idxs) == [base |-> f.name.base, idxs |-> idxs]

createExistentialSpecializedFunctionName ==
    /\ pc = "start"
    /\ Name' = Mangle(F, DenseMapKeys(ExistentialArgDescriptor))
    /\ pc' = "named"
    /\ UNCHANGED <<GenericToOpenedTypeMap, SubMap, lookupAssertFailed,
                   F, origF, ArgumentDescList, ExistentialArgDescriptor,
                   ArgToGenericTypeMap, NewFTy, GenericParams, Requirements,
                   NewF, table, AllocStackInsts, CleanupValues, entryArgs,
                   Temps, ApplyArgs, created, clonerRuns, assertFailed>>

(***************************************************************************)
(* convertExistentialArgTypesToGenericArgTypes                             *)
(***************************************************************************)
\* SmallDenseMap::insert: an existing key keeps its value.
DenseMapInsert(m, key, val) ==
    IF key \in DOMAIN m THEN m
    ELSE [x \in DOMAIN m \cup {key} |-> IF x = key THEN val ELSE m[x]]

\* Mutant: the existential type itself is used as the constraint.
ConstraintOf_Unwrapped(PType) == PType

\* The constraint of a parameter type: the constraint type of an
\* ExistentialType, the type itself otherwise.
ConstraintOf(PType) ==
    IF PType.kind = "existential" THEN ConstraintTy(PType.constraint) ELSE PType

\* Mutant: the depth of the deepest existing parameter is used.
NewParamDepth_Deepest(OrigGenericSig) ==
    IF OrigGenericSig.params = <<>> THEN 0 ELSE getNextDepth(OrigGenericSig) - 1

\* The depth at which the new generic parameters are created.
NewParamDepth(OrigGenericSig) == getNextDepth(OrigGenericSig)

\* One iteration of the loop over ExistentialArgDescriptor.
ConvertStep(acc, Idx, params, Depth) ==
    LET PType == params[Idx].ty
        NewGenericParam == GenericTypeParamType(Depth, acc.GPIdx)
    IN [genericParams |-> Append(acc.genericParams, NewGenericParam),
        requirements |-> Append(acc.requirements,
                                Requirement("Conformance", NewGenericParam,
                                            ConstraintOf(PType))),
        map |-> DenseMapInsert(acc.map, Idx, NewGenericParam),
        GPIdx |-> acc.GPIdx + 1]

RECURSIVE ConvertLoop(_, _, _, _, _)
ConvertLoop(acc, EAD, k, params, Depth) ==
    IF k > Len(EAD) THEN acc
    ELSE ConvertLoop(ConvertStep(acc, EAD[k].first, params, Depth),
                     EAD, k + 1, params, Depth)

convertExistentialArgTypesToGenericArgTypes(FTy, EAD, map) ==
    ConvertLoop([genericParams |-> <<>>, requirements |-> <<>>,
                 map |-> map, GPIdx |-> 0],
                EAD, 1, FTy.params, NewParamDepth(FTy.sig))

(***************************************************************************)
(* createExistentialSpecializedFunctionType                                *)
(***************************************************************************)
\* Mutant: a rewritten parameter gets the default convention.
InterfaceParam_DefaultConvention(param, Idx, map, NewGenericSig) ==
    IF Idx \in DOMAIN map
    THEN SILParameterInfo(getReducedType(map[Idx], NewGenericSig), "Direct_Unowned")
    ELSE param

\* The parameter of the specialized type at position Idx.
InterfaceParam(param, Idx, map, NewGenericSig) ==
    IF Idx \in DOMAIN map
    THEN SILParameterInfo(getReducedType(map[Idx], NewGenericSig), param.conv)
    ELSE param

\* ExtInfo.withRepresentation(SILFunctionTypeRepresentation::Thin)
SpecializedRepresentation(repr) == "Thin"

SpecializedFunctionType(FTy, conv) ==
    LET NewGenericSig == buildGenericSignature(FTy.sig, conv.genericParams,
                                               conv.requirements)
    IN SILFunctionType(
           NewGenericSig, SpecializedRepresentation(FTy.repr), FTy.coroutine,
           FTy.calleeConv,
           [Idx \in 1..Len(FTy.params) |->
              InterfaceParam(FTy.params[Idx], Idx, conv.map, NewGenericSig)],
           FTy.yields, FTy.results,
           IF FTy.error # NoType THEN FTy.error ELSE NoType)

createExistentialSpecializedFunctionType ==
    /\ pc = "named"
    /\ LET conv == convertExistentialArgTypesToGenericArgTypes(
                       F.ty, ExistentialArgDescriptor, ArgToGenericTypeMap)
       IN /\ GenericParams' = conv.genericParams
          /\ Requirements' = conv.requirements
          /\ ArgToGenericTypeMap' = conv.map
          /\ NewFTy' = SpecializedFunctionType(F.ty, conv)
    /\ pc' = "typed"
    /\ UNCHANGED <<GenericToOpenedTypeMap, SubMap, lookupAssertFailed,
                   F, origF, ArgumentDescList, ExistentialArgDescriptor, Name,
                   NewF, table, AllocStackInsts, CleanupValues, entryArgs,
                   Temps, ApplyArgs, created, clonerRuns, assertFailed>>

(***************************************************************************)
(* ExistentialSpecializerCloner::cloneArguments                            *)
(***************************************************************************)
\* SILFunctionArgument::getArgumentConvention of F's argument at position p.
getArgumentConvention(FTy, p) == FTy.params[p].conv

\* Mutant: the generic argument is always taken.
OpaqueCopyIsTake_Always(origConsumed) == "take"

\* copy_addr's IsTake flag when the generic argument is boxed into the
\* opaque existential slot.
OpaqueCopyIsTake(origConsumed) == IF origConsumed THEN "take" ELSE "copy"

\* Whether the opaque existential slot is pushed on CleanupValues.
OpaqueSlotNeedsCleanup(origConsumed) == ~origConsumed

\* Mutant: a borrowed argument is loaded as a copy whether or not the
\* function has ownership.
LoadQualifier_ByConsumption(hasOwnership, origConsumed) ==
    IF origConsumed THEN "take" ELSE "copy"

\* The load qualifier for a class existential passed by address.
LoadQualifier(hasOwnership, origConsumed) ==
    IF hasOwnership /\ ~origConsumed THEN "copy" ELSE "take"

ClonerState(args, insts, eArgs, allocs, cleanups) ==
    [args |-> args, insts |-> insts, entryArgs |-> eArgs,
     AllocStackInsts |-> allocs, CleanupValues |-> cleanups]

\* An argument that is not rewritten.
CloneUnchangedArgument(st, ArgDesc, NewFTy_) ==
    LET p == ArgDesc.Index
        NewArg == Argument(mapTypeIntoContext(NewFTy_.params[p].ty),
                           ArgDesc.Arg.category, ArgDesc.Decl, ArgDesc.Arg.flags)
    IN ClonerState(Append(st.args, NewArg), st.insts,
                   Append(st.entryArgs, V("arg", p)),
                   st.AllocStackInsts, st.CleanupValues)

\* case ExistentialRepresentation::Opaque
CloneOpaqueArgument(st, p, NewArg, EAD) ==
    LET ASI == V("alloc", p)
        EAI == V("eai", p)
        origConsumed == EAD.isConsumed
    IN ClonerState(
           Append(st.args, NewArg),
           st.insts \o
             <<Inst("alloc_stack", ASI, NoValue, ""),
               Inst("init_existential_addr", EAI, ASI, ""),
               Inst("copy_addr", EAI, V("arg", p), OpaqueCopyIsTake(origConsumed))>>,
           Append(st.entryArgs, ASI),
           Append(st.AllocStackInsts, ASI),
           IF OpaqueSlotNeedsCleanup(origConsumed)
           THEN Append(st.CleanupValues, ASI) ELSE st.CleanupValues)

\* case ExistentialRepresentation::Class
CloneClassArgument(st, p, NewArg, EAD, hasOwnership, ownershipKind) ==
    LET origConsumed == EAD.isConsumed
        isObject == NewArg.category = "object"
        unowned == hasOwnership /\ ownershipKind = "Unowned"
        loadInsts ==
            IF ~isObject
            THEN <<Inst("load", V("load", p), V("arg", p),
                        LoadQualifier(hasOwnership, origConsumed))>>
            ELSE <<>>
        loaded == IF ~isObject THEN V("load", p) ELSE V("arg", p)
        copyInsts ==
            IF unowned THEN <<Inst("copy_value", V("copy", p), V("arg", p), "")>>
            ELSE <<>>
        NewArgValue == IF unowned THEN V("copy", p) ELSE loaded
        InitRef == V("initref", p)
        alloc == V("alloc", p)
        spillInsts ==
            IF ~isObject
            THEN <<Inst("alloc_stack", alloc, NoValue, ""),
                   Inst("store", alloc, InitRef, "init")>>
            ELSE <<>>
    IN ClonerState(
           Append(st.args, NewArg),
           st.insts \o loadInsts \o copyInsts
             \o <<Inst("init_existential_ref", InitRef, NewArgValue, "")>>
             \o spillInsts,
           Append(st.entryArgs, IF ~isObject THEN alloc ELSE InitRef),
           IF ~isObject THEN Append(st.AllocStackInsts, alloc)
           ELSE st.AllocStackInsts,
           IF unowned THEN Append(st.CleanupValues, InitRef) ELSE st.CleanupValues)

\* One iteration of the loop over ArgumentDescList.
CloneArgument(st, ArgDesc, OrigFTy, NewFTy_, map, EADMap, hasOwnership) ==
    LET p == ArgDesc.Index IN
    IF p \notin DOMAIN map
    THEN CloneUnchangedArgument(st, ArgDesc, NewFTy_)
    ELSE
      LET GenericParam == map[p]
          NewArg == Argument(mapTypeIntoContext(GenericParam),
                             ArgDesc.Arg.category, ArgDesc.Decl, ArgDesc.Arg.flags)
          ownershipKind == ValueOwnershipKind(ArgDesc.Arg.category,
                                              getArgumentConvention(OrigFTy, p))
          EAD == EADMap[DenseMapFind(EADMap, p)].second
          ExistentialRepr == getPreferredExistentialRepresentation(ArgDesc.Arg.ty)
      IN IF ExistentialRepr = "Opaque"
         THEN CloneOpaqueArgument(st, p, NewArg, EAD)
         ELSE CloneClassArgument(st, p, NewArg, EAD, hasOwnership, ownershipKind)

RECURSIVE CloneArgumentsLoop(_, _, _, _, _, _, _, _)
CloneArgumentsLoop(st, ADL, k, OrigFTy, NewFTy_, map, EADMap, hasOwnership) ==
    IF k > Len(ADL) THEN st
    ELSE CloneArgumentsLoop(
             CloneArgument(st, ADL[k], OrigFTy, NewFTy_, map, EADMap, hasOwnership),
             ADL, k + 1, OrigFTy, NewFTy_, map, EADMap, hasOwnership)

cloneArguments(ADL, OrigFTy, NewFTy_, map, EADMap, hasOwnership) ==
    CloneArgumentsLoop(ClonerState(<<>>, <<>>, <<>>, <<>>, <<>>),
                       ADL, 1, OrigFTy, NewFTy_, map, EADMap, hasOwnership)

(***************************************************************************)
(* ExistentialSpecializerCloner::cloneAndPopulateFunction                  *)
(***************************************************************************)
\* SILFunction::findExitingBlocks: the blocks that leave the function.
isExitingBlock(bb) == bb.term.op \in {"return", "throw", "unreachable"}

\* Mutant: the stack slots are deallocated in allocation order.
ExitCleanup_ForwardDeallocs(cleanups, allocs) ==
    [k \in 1..Len(cleanups) |-> Inst("destroy", NoValue, cleanups[k], "")]
    \o [k \in 1..Len(allocs) |-> Inst("dealloc_stack", NoValue, allocs[k], "")]

\* The instructions inserted before the terminator of an exiting block.
ExitCleanup(cleanups, allocs) ==
    [k \in 1..Len(cleanups) |-> Inst("destroy", NoValue, cleanups[k], "")]
    \o [k \in 1..Len(allocs) |->
          Inst("dealloc_stack", NoValue, Reverse(allocs)[k], "")]

\* cloneFunctionBody: the original blocks, the entry block's instructions
\* placed after the new prolog and reading the values of entryArgs.
ClonedBlocks(origBlocks, st) ==
    [b \in 1..Len(origBlocks) |->
       IF b = 1
       THEN Block(origBlocks[b].args,
                  st.insts \o [k \in 1..Len(origBlocks[b].insts) |->
                                 [origBlocks[b].insts[k] EXCEPT !.args = st.entryArgs]],
                  origBlocks[b].term)
       ELSE origBlocks[b]]

cloneAndPopulateFunction(OrigF, NewFTy_, ADL, map, EADMap, hasOwnership) ==
    LET st == cloneArguments(ADL, OrigF.ty, NewFTy_, map, EADMap, hasOwnership)
        cloned == ClonedBlocks(OrigF.blocks, st)
    IN [st |-> st,
        blocks |-> [b \in 1..Len(cloned) |->
                      IF isExitingBlock(cloned[b])
                      THEN [cloned[b] EXCEPT
                              !.insts = @ \o ExitCleanup(st.CleanupValues,
                                                         st.AllocStackInsts)]
                      ELSE cloned[b]]]

(***************************************************************************)
(* createExistentialSpecializedFunction, step 1                            *)
(***************************************************************************)
\* SILModule::lookUpFunction: the index of the function of that name, 0 when
\* there is none.
lookUpFunction(tbl, name) ==
    IF \E k \in 1..Len(tbl) : tbl[k].name = name
    THEN CHOOSE k \in 1..Len(tbl) :
           tbl[k].name = name /\ \A j \in 1..Len(tbl) : tbl[j].name = name => k <= j
    ELSE 0

\* Mutant: the result of the lookup is ignored.
HasCachedFn_Never(CachedFn) == FALSE

\* `if (auto *CachedFn = F->getModule().lookUpFunction(Name))`
HasCachedFn(CachedFn) == CachedFn # 0

\* getSpecializedLinkage(F, F->getLinkage())
getSpecializedLinkage(linkage) == "shared"

\* The cached function is reused as the twin.
reuseCachedFunction ==
    /\ pc = "typed"
    /\ LET CachedFn == lookUpFunction(table, Name) IN
       /\ HasCachedFn(CachedFn)
       /\ assertFailed' = (assertFailed \/ table[CachedFn].ty # NewFTy)
       /\ NewF' = CachedFn
    /\ pc' = "twin"
    /\ UNCHANGED <<GenericToOpenedTypeMap, SubMap, lookupAssertFailed,
                   F, origF, ArgumentDescList, ExistentialArgDescriptor,
                   ArgToGenericTypeMap, Name, NewFTy, GenericParams,
                   Requirements, table, AllocStackInsts, CleanupValues,
                   entryArgs, Temps, ApplyArgs, created, clonerRuns>>

\* A new function is created and populated by the cloner.
createAndPopulateFunction ==
    /\ pc = "typed"
    /\ ~HasCachedFn(lookUpFunction(table, Name))
    /\ LET hasOwnership == F.hasOwnership
           body == cloneAndPopulateFunction(F, NewFTy, ArgumentDescList,
                                            ArgToGenericTypeMap,
                                            ExistentialArgDescriptor, hasOwnership)
           fn == [name |-> Name,
                  linkage |-> getSpecializedLinkage(F.linkage),
                  ty |-> NewFTy,
                  args |-> body.st.args,
                  thunk |-> F.thunk,
                  inline |-> F.inline,
                  hasOwnership |-> hasOwnership,
                  blocks |-> body.blocks]
       IN /\ table' = Append(table, fn)
          /\ NewF' = Len(table) + 1
          /\ AllocStackInsts' = body.st.AllocStackInsts
          /\ CleanupValues' = body.st.CleanupValues
          /\ entryArgs' = body.st.entryArgs
    /\ created' = created + 1
    /\ clonerRuns' = clonerRuns + 1
    /\ pc' = "twin"
    /\ UNCHANGED <<GenericToOpenedTypeMap, SubMap, lookupAssertFailed,
                   F, origF, ArgumentDescList, ExistentialArgDescriptor,
                   ArgToGenericTypeMap, Name, NewFTy, GenericParams,
                   Requirements, Temps, ApplyArgs, assertFailed>>

(***************************************************************************)
(* ExistentialTransform::populateThunkBody                                 *)
(***************************************************************************)
\* Mutant: the thunk argument is created without copyFlags.
ThunkArgument_NoFlags(ArgDesc) ==
    Argument(ArgDesc.Arg.ty, ArgDesc.Arg.category, ArgDesc.Decl, V("flags", 0))

\* The thunk's entry-block argument made for ArgDesc.
ThunkArgument(ArgDesc) ==
    Argument(ArgDesc.Arg.ty, ArgDesc.Arg.category, ArgDesc.Decl, ArgDesc.Arg.flags)

Temp(DeallocStackEntry, DestroyValue) ==
    [DeallocStackEntry |-> DeallocStackEntry, DestroyValue |-> DestroyValue]

ThunkState(insts, applyArgs, temps) ==
    [insts |-> insts, ApplyArgs |-> applyArgs, Temps |-> temps]

\* Mutant: the opened value of a consumed argument is moved into the
\* temporary slot.
OpenOpaqueArgument_Take(st, p, ETAD) ==
    LET OrigOperand == V("arg", p)
        archetypeValue == V("opened", p)
        ASI == V("alloc", p)
    IN ThunkState(
           st.insts
             \o <<Inst("open_existential_addr", archetypeValue, OrigOperand,
                       ETAD.AccessType)>>
             \o (IF ETAD.isConsumed
                 THEN <<Inst("alloc_stack", ASI, NoValue, ""),
                        Inst("copy_addr", ASI, archetypeValue, "take")>>
                 ELSE <<>>),
           Append(st.ApplyArgs, IF ETAD.isConsumed THEN ASI ELSE archetypeValue),
           IF ETAD.isConsumed THEN Append(st.Temps, Temp(ASI, OrigOperand))
           ELSE st.Temps)

\* case ExistentialRepresentation::Opaque
OpenOpaqueArgument(st, p, ETAD) ==
    LET OrigOperand == V("arg", p)
        archetypeValue == V("opened", p)
        ASI == V("alloc", p)
        OriginallyConsumed == ETAD.isConsumed
    IN ThunkState(
           st.insts
             \o <<Inst("open_existential_addr", archetypeValue, OrigOperand,
                       ETAD.AccessType)>>
             \o (IF OriginallyConsumed
                 THEN <<Inst("alloc_stack", ASI, NoValue, ""),
                        Inst("copy_addr", ASI, archetypeValue, "copy")>>
                 ELSE <<>>),
           Append(st.ApplyArgs, IF OriginallyConsumed THEN ASI ELSE archetypeValue),
           IF OriginallyConsumed THEN Append(st.Temps, Temp(ASI, OrigOperand))
           ELSE st.Temps)

\* case ExistentialRepresentation::Class
OpenClassArgument(st, p, ETAD, isObject, hasOwnership) ==
    LET OrigOperand == V("arg", p)
        OriginallyConsumed == ETAD.isConsumed
        copies == hasOwnership /\ ~OriginallyConsumed
        loadInsts ==
            IF ~isObject
            THEN <<Inst("load", V("load", p), OrigOperand,
                        LoadQualifier(hasOwnership, OriginallyConsumed))>>
            ELSE IF copies
            THEN <<Inst("copy_value", V("copy", p), OrigOperand, "")>>
            ELSE <<>>
        OrigValue == IF ~isObject THEN V("load", p)
                     ELSE IF copies THEN V("copy", p) ELSE OrigOperand
        opened == V("opened", p)
        ASI == V("alloc", p)
    IN ThunkState(
           st.insts \o loadInsts
             \o <<Inst("open_existential_ref", opened, OrigValue, "")>>
             \o (IF ~isObject
                 THEN <<Inst("alloc_stack", ASI, NoValue, ""),
                        Inst("store", ASI, opened, "init")>>
                 ELSE <<>>),
           Append(st.ApplyArgs, IF ~isObject THEN ASI ELSE opened),
           IF ~isObject THEN Append(st.Temps, Temp(ASI, NoValue))
           ELSE IF copies THEN Append(st.Temps, Temp(NoValue, opened))
           ELSE st.Temps)

\* Mutant: an argument that is not rewritten is not passed on.
OpenArgument_DropForwarded(st, ArgDesc, map, EADMap, hasOwnership) ==
    LET p == ArgDesc.Index
        it == DenseMapFind(EADMap, p)
    IN IF p \in DOMAIN map /\ it # 0
       THEN IF getPreferredExistentialRepresentation(ArgDesc.Arg.ty) = "Opaque"
            THEN OpenOpaqueArgument(st, p, EADMap[it].second)
            ELSE OpenClassArgument(st, p, EADMap[it].second,
                                   ArgDesc.Arg.category = "object", hasOwnership)
       ELSE st

\* One iteration of the loop that determines the arguments of the apply.
OpenArgument(st, ArgDesc, map, EADMap, hasOwnership) ==
    LET p == ArgDesc.Index
        it == DenseMapFind(EADMap, p)
    IN IF p \in DOMAIN map /\ it # 0
       THEN IF getPreferredExistentialRepresentation(ArgDesc.Arg.ty) = "Opaque"
            THEN OpenOpaqueArgument(st, p, EADMap[it].second)
            ELSE OpenClassArgument(st, p, EADMap[it].second,
                                   ArgDesc.Arg.category = "object", hasOwnership)
       ELSE ThunkState(st.insts, Append(st.ApplyArgs, V("arg", p)), st.Temps)

RECURSIVE OpenArgumentsLoop(_, _, _, _, _, _)
OpenArgumentsLoop(st, ADL, k, map, EADMap, hasOwnership) ==
    IF k > Len(ADL) THEN st
    ELSE OpenArgumentsLoop(OpenArgument(st, ADL[k], map, EADMap, hasOwnership),
                           ADL, k + 1, map, EADMap, hasOwnership)

\* `GenericToOpenedTypeMap.insert({iter->second, OpenedType})` at the end of
\* the iteration of a transformed argument; nothing for any other argument.
RecordOpenedType(m, ArgDesc, map, EADMap) ==
    LET p == ArgDesc.Index
        it == DenseMapFind(EADMap, p)
    IN IF p \in DOMAIN map /\ it # 0
       THEN DenseMapInsert(m, map[p], OpenedArchetype(ArgDesc.Arg.ty))
       ELSE m

RECURSIVE RecordOpenedTypesLoop(_, _, _, _, _)
RecordOpenedTypesLoop(m, ADL, k, map, EADMap) ==
    IF k > Len(ADL) THEN m
    ELSE RecordOpenedTypesLoop(RecordOpenedType(m, ADL[k], map, EADMap),
                               ADL, k + 1, map, EADMap)

\* Mutant: the parameters at the original next depth are taken for original
\* parameters too.
BelowOrigDepth_Inclusive(GP, OrigDepth) == GP.depth <= OrigDepth

\* `GP->getDepth() < OrigDepth`: GP is a parameter of the original signature.
BelowOrigDepth(GP, OrigDepth) == GP.depth < OrigDepth

\* `Type(GP).subst(OrigSubMap)` with F's forwarding substitutions: the
\* parameter's archetype in F's generic environment.
substForwarding(GP) == mapTypeIntoContext(GP)

\* Whether the lookup of GP in GenericToOpenedTypeMap returns end().
LookupMisses(GP, OrigDepth, G2O) ==
    /\ GP.kind = "generic"
    /\ ~BelowOrigDepth(GP, OrigDepth)
    /\ GP \notin DOMAIN G2O

\* What reading `iter->second` at end() can produce when asserts are
\* compiled out: no type, or any type stored in the map.
DanglingLookup(G2O) == {NoType} \cup {G2O[g] : g \in DOMAIN G2O}

\* The replacement types the callback of SubstitutionMap::get can return for
\* the substitutable type GP.
Replacements(GP, OrigDepth, G2O) ==
    IF GP.kind # "generic" THEN {GP}
    ELSE IF BelowOrigDepth(GP, OrigDepth) THEN {substForwarding(GP)}
    ELSE IF GP \in DOMAIN G2O THEN {G2O[GP]}
    ELSE DanglingLookup(G2O)

\* SubstitutionMap::get(CalleeGenericSig, callback, ...): one replacement
\* type per generic parameter of the callee's signature, the callback being
\* called on the parameters in order; n is the number of parameters done.
RECURSIVE SubstitutionMapsUpTo(_, _, _, _)
SubstitutionMapsUpTo(n, CalleeGenericSig, OrigDepth, G2O) ==
    IF n = 0 THEN {<<>>}
    ELSE {Append(s, t) :
            s \in SubstitutionMapsUpTo(n - 1, CalleeGenericSig, OrigDepth, G2O),
            t \in Replacements(CalleeGenericSig.params[n], OrigDepth, G2O)}

SubstitutionMaps(CalleeGenericSig, OrigDepth, G2O) ==
    SubstitutionMapsUpTo(Len(CalleeGenericSig.params), CalleeGenericSig,
                         OrigDepth, G2O)

\* The cleanup of one Temp.
TempCleanupOne(t) ==
    (IF t.DestroyValue # NoValue
     THEN <<Inst("destroy", NoValue, t.DestroyValue, "")>> ELSE <<>>)
    \o (IF t.DeallocStackEntry # NoValue
        THEN <<Inst("dealloc_stack", NoValue, t.DeallocStackEntry, "")>> ELSE <<>>)

\* Mutant: the temporaries are cleaned up in registration order.
TempCleanup_Forward(temps) ==
    Flatten([k \in 1..Len(temps) |-> TempCleanupOne(temps[k])])

\* `for (auto &Temp : llvm::reverse(Temps))`
TempCleanup(temps) ==
    Flatten([k \in 1..Len(temps) |-> TempCleanupOne(Reverse(temps)[k])])

\* SILFunction::isNoReturnFunction: the function's result is Never.
isNoReturnFunction(fn) == fn.ty.results = <<NeverTy>>

\* Mutant: the thunk returns even when the twin never does.
ThunkTerminator_AlwaysReturn(twin, ReturnValue) == Term("return", ReturnValue, <<>>)

\* The terminator that ends the path after the call.
ThunkTerminator(twin, ReturnValue) ==
    IF isNoReturnFunction(twin) THEN Term("unreachable", NoValue, <<>>)
    ELSE Term("return", ReturnValue, <<>>)

\* Whether the call is a try_apply.
CallCanFail(FunctionTy) == FunctionTy.error # NoType

\* The blocks of the thunk: the unboxing, the call of the twin NewF_ (an
\* index of the function table) and what follows it.
ThunkBlocks(st, twin, NewF_) ==
    LET FRI == V("function_ref", NewF_)
        ReturnValue == V("result", 0)
        ErrorArg == V("error", 0)
        refInst == Inst("function_ref", FRI, NoValue, "")
        cleanup == TempCleanup(st.Temps)
    IN IF CallCanFail(twin.ty)
       THEN <<Block(<<>>, <<refInst>> \o st.insts,
                    [op |-> "try_apply", src |-> FRI, succ |-> <<2, 3>>,
                     args |-> st.ApplyArgs]),
              Block(<<ReturnValue>>, cleanup, ThunkTerminator(twin, ReturnValue)),
              Block(<<ErrorArg>>, <<>>, Term("throw", ErrorArg, <<>>))>>
       ELSE <<Block(<<>>,
                    <<refInst>> \o st.insts
                      \o <<[Inst("apply", ReturnValue, FRI, "") EXCEPT
                              !.args = st.ApplyArgs]>>
                      \o cleanup,
                    ThunkTerminator(twin, ReturnValue))>>

populateThunkBody ==
    /\ pc = "twin"
    /\ LET st == OpenArgumentsLoop(ThunkState(<<>>, <<>>, <<>>), ArgumentDescList, 1,
                                   ArgToGenericTypeMap, ExistentialArgDescriptor,
                                   F.hasOwnership)
       IN /\ F' = [F EXCEPT
                     !.thunk = "IsSignatureOptimizedThunk",
                     !.inline = "AlwaysInline",
                     !.args = [k \in 1..Len(ArgumentDescList) |->
                                 ThunkArgument(ArgumentDescList[k])],
                     !.blocks = ThunkBlocks(st, table[NewF], NewF)]
          /\ Temps' = st.Temps
          /\ ApplyArgs' = st.ApplyArgs
    /\ LET G2O == RecordOpenedTypesLoop(EmptyMap, ArgumentDescList, 1,
                                        ArgToGenericTypeMap,
                                        ExistentialArgDescriptor)
           CalleeGenericSig == table[NewF].ty.sig
           OrigDepth == getNextDepth(F.ty.sig)
       IN /\ GenericToOpenedTypeMap' = G2O
          /\ SubMap' \in SubstitutionMaps(CalleeGenericSig, OrigDepth, G2O)
          /\ lookupAssertFailed' =
               (lookupAssertFailed
                \/ \E k \in 1..Len(CalleeGenericSig.params) :
                     LookupMisses(CalleeGenericSig.params[k], OrigDepth, G2O))
    /\ pc' = "done"
    /\ UNCHANGED <<origF, ArgumentDescList, ExistentialArgDescriptor,
                   ArgToGenericTypeMap, Name, NewFTy, GenericParams,
                   Requirements, NewF, table, AllocStackInsts, CleanupValues,
                   entryArgs, created, clonerRuns, assertFailed>>

(***************************************************************************)
(* The pass runs again on a function of the same name and signature after  *)
(* the thunk has been dead-code eliminated: a new ExistentialTransform,    *)
(* the module's function table as the earlier runs left it.                *)
(***************************************************************************)
runAgain ==
    /\ pc = "done"
    /\ F' = origF
    /\ ArgToGenericTypeMap' = EmptyMap
    /\ Name' = [base |-> "", idxs |-> {}]
    /\ NewFTy' = NoType
    /\ GenericParams' = <<>>
    /\ Requirements' = <<>>
    /\ NewF' = 0
    /\ AllocStackInsts' = <<>>
    /\ CleanupValues' = <<>>
    /\ entryArgs' = <<>>
    /\ Temps' = <<>>
    /\ ApplyArgs' = <<>>
    /\ GenericToOpenedTypeMap' = EmptyMap
    /\ SubMap' = <<>>
    /\ pc' = "start"
    /\ UNCHANGED <<lookupAssertFailed,
                   origF, ArgumentDescList, ExistentialArgDescriptor, table,
                   created, clonerRuns, assertFailed>>

Next ==
    \/ createExistentialSpecializedFunctionName
    \/ createExistentialSpecializedFunctionType
    \/ reuseCachedFunction
    \/ createAndPopulateFunction
    \/ populateThunkBody
    \/ runAgain

Spec == Init /\ [][Next]_vars

(***************************************************************************)
(* Reading the generated SIL.                                              *)
(***************************************************************************)
\* The twin of the transform in progress, once step 1 has set NewF.
Twin == table[NewF]

\* The paths from the entry block to an exit, as sequences of block indices
\* (no generated function nests branches deeper than one level).
ExitPaths(blocks) ==
    IF blocks[1].term.succ = <<>> THEN {<<1>>}
    ELSE {<<1, blocks[1].term.succ[k]>> : k \in 1..Len(blocks[1].term.succ)}

PathInsts(blocks, path) ==
    Flatten([k \in 1..Len(path) |-> blocks[path[k]].insts])

PathTerm(blocks, path) == blocks[path[Len(path)]].term

Count(insts, op, val) ==
    Cardinality({k \in 1..Len(insts) : insts[k].op = op /\ insts[k].src = val})

\* The stack slots allocated by a sequence of instructions.
AllocatedSlots(insts) ==
    {insts[k].dst : k \in {j \in 1..Len(insts) : insts[j].op = "alloc_stack"}}

\* The instructions that make an owned copy.
IsCopy(inst) ==
    \/ inst.op = "copy_addr" /\ inst.flag = "copy"
    \/ inst.op = "load" /\ inst.flag = "copy"
    \/ inst.op = "copy_value"

\* The value that finally holds what v holds: ownership is forwarded by
\* init_existential_ref and open_existential_ref, moved into a slot by a
\* store, and an init_existential_addr projection belongs to its slot.
RECURSIVE Holder(_, _)
Holder(insts, v) ==
    LET fwd == {k \in 1..Len(insts) :
                  /\ insts[k].op \in {"init_existential_ref", "open_existential_ref",
                                      "store"}
                  /\ insts[k].src = v}
        proj == {k \in 1..Len(insts) :
                   insts[k].op = "init_existential_addr" /\ insts[k].dst = v}
    IN IF fwd # {} THEN Holder(insts, insts[CHOOSE k \in fwd : TRUE].dst)
       ELSE IF proj # {} THEN insts[CHOOSE k \in proj : TRUE].src
       ELSE v

\* The boxed value an opened address was projected from.
BoxOf(insts, v) ==
    LET open == {k \in 1..Len(insts) :
                   insts[k].op = "open_existential_addr" /\ insts[k].dst = v}
    IN IF open # {} THEN insts[CHOOSE k \in open : TRUE].src ELSE v

\* The values a function hands over: the arguments of the cloned body in the
\* twin, the arguments of the call in the thunk.
HandedArgs(blocks) ==
    IF blocks[1].term.op = "try_apply" THEN blocks[1].term.args
    ELSE LET calls == {k \in 1..Len(blocks[1].insts) :
                         blocks[1].insts[k].op \in {"body", "apply"}}
         IN blocks[1].insts[CHOOSE k \in calls : TRUE].args

\* The values handed over at a position whose convention consumes them.
ConsumedValues(blocks, fty) ==
    {HandedArgs(blocks)[p] :
       p \in {q \in 1..Len(fty.params) : isConsumedConvention(fty.params[q].conv)}}

\* The owned temporaries a function's entry block introduces: the holder of
\* every copy, or, when the copy is handed to a consumer, the boxed value the
\* copy was taken from.
OwnedTemporaries(blocks, fty) ==
    LET insts == blocks[1].insts
        copies == {k \in 1..Len(insts) : IsCopy(insts[k])}
    IN {IF Holder(insts, insts[k].dst) \in ConsumedValues(blocks, fty)
        THEN BoxOf(insts, insts[k].src)
        ELSE Holder(insts, insts[k].dst) : k \in copies}

\* On every exit path every allocated slot is deallocated exactly once and
\* every owned temporary is destroyed exactly once.
CleanOnEveryPath(blocks, fty) ==
    \A path \in ExitPaths(blocks) :
      LET insts == PathInsts(blocks, path) IN
      /\ \A slot \in AllocatedSlots(blocks[1].insts) :
           Count(insts, "dealloc_stack", slot) = 1
      /\ \A v \in OwnedTemporaries(blocks, fty) :
           Count(insts, "destroy", v) = 1

(***************************************************************************)
(* C1.  On every exit path of the twin (return, throw, unreachable) and of *)
(* the thunk (normal return, failure re-raise, unreachable) every stack    *)
(* slot the transform allocated is deallocated exactly once and every      *)
(* owned temporary it introduced is destroyed exactly once.                *)
(***************************************************************************)
C1_NoLeakOnAnyExit ==
    pc = "done" =>
      /\ CleanOnEveryPath(Twin.blocks, Twin.ty)
      /\ CleanOnEveryPath(F.blocks, Twin.ty)

\* The argument positions the transform rewrites.
TransformedIdxs == DenseMapKeys(ExistentialArgDescriptor)

\* The descriptor recorded for transformed position p.
ETADOf(p) == ExistentialArgDescriptor[DenseMapFind(ExistentialArgDescriptor, p)].second

\* The cloner has run in this invocation (it fills entryArgs).
ClonerRan == pc \in {"twin", "done"} /\ entryArgs # <<>>

(***************************************************************************)
(* C2.  After createExistentialSpecializedFunction the thunk F has the     *)
(* entry-block arguments of the pre-transform F, position by position      *)
(* (same count, order, type and flags, transformed or not); only the body  *)
(* and the thunk / always-inline attributes of F change.                   *)
(***************************************************************************)
C2_ThunkKeepsSignature ==
    pc = "done" =>
      /\ Len(F.args) = Len(origF.args)
      /\ \A p \in 1..Len(origF.args) :
           /\ F.args[p].ty = origF.args[p].ty
           /\ F.args[p].category = origF.args[p].category
           /\ F.args[p].decl = origF.args[p].decl
           /\ F.args[p].flags = origF.args[p].flags
      /\ F.name = origF.name
      /\ F.ty = origF.ty
      /\ F.linkage = origF.linkage
      /\ F.hasOwnership = origF.hasOwnership
      /\ F.thunk = "IsSignatureOptimizedThunk"
      /\ F.inline = "AlwaysInline"
      /\ F.blocks # origF.blocks

C2_Witness ==
    /\ pc = "done"
    /\ \E p \in ArgIdx : p \in TransformedIdxs
    /\ \E p \in ArgIdx : p \notin TransformedIdxs

(***************************************************************************)
(* C3.  The function table holds at most one function per specialized     *)
(* name: a cache hit creates no function and runs no cloner and reuses the *)
(* cached function (whose type equals the freshly computed one), a miss    *)
(* creates and populates exactly one; either way F ends as a thunk that    *)
(* calls that twin.                                                        *)
(***************************************************************************)
C3_OneTwinPerName ==
    /\ \A j, k \in 1..Len(table) : table[j].name = table[k].name => j = k
    /\ created = Len(table)
    /\ clonerRuns = created
    /\ ~assertFailed
    /\ pc \in {"twin", "done"} =>
         /\ NewF \in 1..Len(table)
         /\ Twin.name = Name
         /\ Twin.ty = NewFTy
    /\ pc = "done" =>
         /\ F.thunk = "IsSignatureOptimizedThunk"
         /\ \E k \in 1..Len(F.blocks[1].insts) :
              /\ F.blocks[1].insts[k].op = "function_ref"
              /\ F.blocks[1].insts[k].dst = V("function_ref", NewF)
         /\ \/ /\ F.blocks[1].term.op = "try_apply"
               /\ F.blocks[1].term.src = V("function_ref", NewF)
            \/ \E k \in 1..Len(F.blocks[1].insts) :
                 /\ F.blocks[1].insts[k].op = "apply"
                 /\ F.blocks[1].insts[k].src = V("function_ref", NewF)

\* A second invocation has reused the twin the first one created.
C3_Witness == pc = "done" /\ created = 1 /\ entryArgs = <<>>

(***************************************************************************)
(* C4.  In the twin's entry block, for every transformed argument of       *)
(* opaque representation: the generic argument is written into the fresh   *)
(* existential slot as a take iff the descriptor says consumed, as a copy  *)
(* otherwise; the slot is on the destroy-at-exit list iff not consumed; it *)
(* is registered for deallocation either way; and the slot's address is    *)
(* what the cloned body gets at that position.                             *)
(***************************************************************************)
C4_OpaqueBoxing ==
    ClonerRan =>
      \A p \in TransformedIdxs :
        origF.args[p].ty.repr = "Opaque" =>
          LET insts == Twin.blocks[1].insts
              slot == V("alloc", p)
              copies == {k \in 1..Len(insts) :
                           insts[k].op = "copy_addr" /\ insts[k].src = V("arg", p)}
          IN /\ Cardinality(copies) = 1
             /\ \A k \in copies :
                  /\ insts[k].flag = "take" <=> ETADOf(p).isConsumed
                  /\ insts[k].flag = "copy" <=> ~ETADOf(p).isConsumed
                  /\ \E j \in 1..(k - 1) :
                       /\ insts[j].op = "init_existential_addr"
                       /\ insts[j].dst = insts[k].dst
                       /\ insts[j].src = slot
             /\ slot \in AllocatedSlots(insts)
             /\ slot \in SeqRange(CleanupValues) <=> ~ETADOf(p).isConsumed
             /\ slot \in SeqRange(AllocStackInsts)
             /\ entryArgs[p] = slot
             /\ HandedArgs(Twin.blocks)[p] = slot

\* The cloner has boxed a consumed and a borrowed opaque argument.
C4_Witness ==
    /\ ClonerRan
    /\ \E p \in TransformedIdxs :
         origF.args[p].ty.repr = "Opaque" /\ ETADOf(p).isConsumed
    /\ \E p \in TransformedIdxs :
         origF.args[p].ty.repr = "Opaque" /\ ~ETADOf(p).isConsumed

(***************************************************************************)
(* C5.  The thunk forwards the twin's outcome on every path: with an error *)
(* result one try_apply with a normal and a failure successor, the failure *)
(* successor holding nothing but the re-raise of the received failure, the *)
(* normal successor receiving the result; without one a single apply.  The *)
(* path after the call ends in unreachable when the twin never returns and *)
(* returns the twin's value otherwise.                                     *)
(***************************************************************************)
C5_ThunkForwardsOutcome ==
    pc = "done" =>
      LET b == F.blocks
          calls == UNION {{<<n, k>> : k \in {j \in 1..Len(b[n].insts) :
                                                b[n].insts[j].op = "apply"}} :
                            n \in 1..Len(b)}
          tries == {n \in 1..Len(b) : b[n].term.op = "try_apply"}
          after == IF origF.ty.results = <<NeverTy>> THEN "unreachable" ELSE "return"
      IN /\ (Twin.ty.error # NoType) <=> (origF.ty.error # NoType)
         /\ IF origF.ty.error # NoType
            THEN /\ calls = {}
                 /\ tries = {1}
                 /\ Len(b) = 3
                 /\ b[1].term.succ = <<2, 3>>
                 /\ b[1].term.src = V("function_ref", NewF)
                 /\ Len(b[3].args) = 1
                 /\ b[3].insts = <<>>
                 /\ b[3].term.op = "throw"
                 /\ b[3].term.src = b[3].args[1]
                 /\ Len(b[2].args) = 1
                 /\ b[2].term.op = after
                 /\ b[2].term.succ = <<>>
                 /\ after = "return" => b[2].term.src = b[2].args[1]
            ELSE /\ tries = {}
                 /\ Cardinality(calls) = 1
                 /\ Len(b) = 1
                 /\ b[1].term.op = after
                 /\ b[1].term.succ = <<>>
                 /\ \A c \in calls :
                      /\ b[c[1]].insts[c[2]].src = V("function_ref", NewF)
                      /\ after = "return" => b[1].term.src = b[c[1]].insts[c[2]].dst

\* A thunk of a throwing function whose twin returns normally.
C5_Witness ==
    /\ pc = "done"
    /\ origF.ty.error # NoType
    /\ origF.ty.results # <<NeverTy>>

(***************************************************************************)
(* C6.  At every exit block of the twin, immediately before the            *)
(* terminator, the cloner emits a destroy for every registered cleanup     *)
(* value followed by a deallocation for every registered stack slot in     *)
(* reverse registration order.                                             *)
(***************************************************************************)
Destroys(vals) == [k \in 1..Len(vals) |-> Inst("destroy", NoValue, vals[k], "")]

Deallocs(slots) == [k \in 1..Len(slots) |-> Inst("dealloc_stack", NoValue, slots[k], "")]

\* The exit blocks of the twin and the instructions the cloner added to each.
TwinExitBlocks == {b \in 1..Len(Twin.blocks) : Twin.blocks[b].term.succ = <<>>}

AddedAtExit(b, added) ==
    /\ Twin.blocks[b].insts = origF.blocks[b].insts \o added
    /\ Twin.blocks[b].term = origF.blocks[b].term

RECURSIVE DropThroughApply(_)
DropThroughApply(insts) ==
    IF insts = <<>> THEN <<>>
    ELSE IF Head(insts).op = "apply" THEN Tail(insts)
    ELSE DropThroughApply(Tail(insts))

AfterCall ==
    IF F.blocks[1].term.op = "try_apply" THEN F.blocks[2].insts
    ELSE DropThroughApply(F.blocks[1].insts)

\* Cleanup appears on no path but the normal one.
NoCleanupOffNormalPath ==
    F.blocks[1].term.op = "try_apply" =>
      /\ \A k \in 1..Len(F.blocks[1].insts) :
           F.blocks[1].insts[k].op \notin {"destroy", "dealloc_stack"}
      /\ F.blocks[3].insts = <<>>

RECURSIVE TempDestroysReversed(_)
TempDestroysReversed(temps) ==
    IF temps = <<>> THEN <<>>
    ELSE LET last == temps[Len(temps)] IN
         (IF last.DestroyValue # NoValue
          THEN <<Inst("destroy", NoValue, last.DestroyValue, "")>> ELSE <<>>)
         \o TempDestroysReversed(SubSeq(temps, 1, Len(temps) - 1))

RECURSIVE TempDeallocsReversed(_)
TempDeallocsReversed(temps) ==
    IF temps = <<>> THEN <<>>
    ELSE LET last == temps[Len(temps)] IN
         (IF last.DeallocStackEntry # NoValue
          THEN <<Inst("dealloc_stack", NoValue, last.DeallocStackEntry, "")>> ELSE <<>>)
         \o TempDeallocsReversed(SubSeq(temps, 1, Len(temps) - 1))

RECURSIVE TempsInterleavedReversed(_)
TempsInterleavedReversed(temps) ==
    IF temps = <<>> THEN <<>>
    ELSE LET last == temps[Len(temps)] IN
         (IF last.DestroyValue # NoValue
          THEN <<Inst("destroy", NoValue, last.DestroyValue, "")>> ELSE <<>>)
         \o (IF last.DeallocStackEntry # NoValue
             THEN <<Inst("dealloc_stack", NoValue, last.DeallocStackEntry, "")>>
             ELSE <<>>)
         \o TempsInterleavedReversed(SubSeq(temps, 1, Len(temps) - 1))

\* As claimed: all the value-level destroys come before any stack-slot
\* deallocation.
C7_DestroysBeforeDeallocs ==
    pc = "done" =>
      /\ AfterCall = TempDestroysReversed(Temps) \o TempDeallocsReversed(Temps)
      /\ NoCleanupOffNormalPath

\* As the code does it: the temporaries are visited in reverse order of
\* registration and each one's destroy (if it has one) is immediately
\* followed by its own deallocation (if it has one), so a later temporary's
\* deallocation precedes an earlier temporary's destroy.
C7_CleanupPerTempReversed ==
    pc = "done" =>
      /\ AfterCall = TempsInterleavedReversed(Temps)
      /\ NoCleanupOffNormalPath

\* Two temporaries that each carry a destroy and a slot.
C7_Witness ==
    /\ pc = "done"
    /\ Len(Temps) >= 2
    /\ \A k \in 1..2 :
         Temps[k].DestroyValue # NoValue /\ Temps[k].DeallocStackEntry # NoValue

(***************************************************************************)
(* C8.  After convertExistentialArgTypesToGenericArgTypes the numbers of   *)
(* new generic parameters and of new conformance requirements both equal   *)
(* the number of transformed arguments; the i-th requirement's subject is  *)
(* the i-th new parameter and its constraint is the constraint type of the *)
(* existential argument that parameter replaces; the index-to-parameter    *)
(* mapping has exactly the transformed indices as keys and is injective.   *)
(***************************************************************************)
TypeComputed == pc \in {"typed", "twin", "done"}

C8_OneParamAndRequirementPerArg ==
    TypeComputed =>
      /\ Len(GenericParams) = Cardinality(TransformedIdxs)
      /\ Len(Requirements) = Cardinality(TransformedIdxs)
      /\ DOMAIN ArgToGenericTypeMap = TransformedIdxs
      /\ \A i, j \in TransformedIdxs :
           ArgToGenericTypeMap[i] = ArgToGenericTypeMap[j] => i = j
      /\ \A i \in TransformedIdxs :
           \E k \in 1..Len(GenericParams) : GenericParams[k] = ArgToGenericTypeMap[i]
      /\ \A k \in 1..Len(Requirements) :
           /\ Requirements[k].kind = "Conformance"
           /\ Requirements[k].subject = GenericParams[k]
           /\ \A i \in TransformedIdxs :
                ArgToGenericTypeMap[i] = GenericParams[k] =>
                  /\ origF.ty.params[i].ty.kind = "existential"
                  /\ Requirements[k].constraint.kind = "protocol"
                  /\ Requirements[k].constraint.constraint =
                       origF.ty.params[i].ty.constraint

C8_Witness == pc = "typed" /\ Cardinality(TransformedIdxs) = NumArgs

(***************************************************************************)
(* C9.  Every new generic parameter is created at the original             *)
(* signature's next depth (strictly greater than the depth of every        *)
(* pre-existing generic parameter), and the new parameters' indices        *)
(* 0, 1, 2, ... are assigned one per transformed argument.                 *)
(***************************************************************************)
NewParamsAtNextDepth ==
    \A i \in TransformedIdxs :
      /\ ArgToGenericTypeMap[i].kind = "generic"
      /\ ArgToGenericTypeMap[i].depth = Len(origF.ty.sig.params)
      /\ \A k \in 1..Len(origF.ty.sig.params) :
           ArgToGenericTypeMap[i].depth > origF.ty.sig.params[k].depth

\* As claimed: the indices ascend with the original argument position,
\* whatever order the descriptor map yields its entries in.
C9_IndicesAscendWithPosition ==
    TypeComputed =>
      /\ NewParamsAtNextDepth
      /\ \A i, j \in TransformedIdxs :
           i < j => ArgToGenericTypeMap[i].index < ArgToGenericTypeMap[j].index

\* As the code does it: the indices ascend with the order in which the
\* descriptor map yields its entries (the k-th entry yielded gets index
\* k-1), which need not be the order of the argument positions.
C9_IndicesFollowMapOrder ==
    TypeComputed =>
      /\ NewParamsAtNextDepth
      /\ \A k \in 1..Len(ExistentialArgDescriptor) :
           ArgToGenericTypeMap[ExistentialArgDescriptor[k].first].index = k - 1

\* The original signature has generic parameters of its own and the
\* descriptor map yields a later argument before an earlier one.
C9_Witness ==
    /\ pc = "typed"
    /\ Len(origF.ty.sig.params) >= 1
    /\ Len(ExistentialArgDescriptor) >= 2
    /\ ExistentialArgDescriptor[1].first > ExistentialArgDescriptor[2].first

CacheHit == pc \in {"twin", "done"} /\ entryArgs = <<>>

\* C11: when the thunk has built the substitution map of its call, every
\* generic parameter of the twin's signature is resolved: a parameter below
\* the original signature's next depth is replaced through the original
\* function's forwarding substitutions, every other parameter has an entry in
\* GenericToOpenedTypeMap and is replaced by that entry, an opened archetype,
\* and the lookup assertion has not fired; this holds whether the twin was
\* created by this transform or found in the module.
C11_SubstitutionsResolve ==
    /\ ~lookupAssertFailed
    /\ pc = "done" =>
         LET params == Twin.ty.sig.params
             OrigDepth == getNextDepth(origF.ty.sig)
         IN /\ Len(SubMap) = Len(params)
            /\ \A k \in 1..Len(params) :
                 IF params[k].depth < OrigDepth
                 THEN SubMap[k] = mapTypeIntoContext(params[k])
                 ELSE /\ params[k] \in DOMAIN GenericToOpenedTypeMap
                      /\ SubMap[k] = GenericToOpenedTypeMap[params[k]]
                      /\ SubMap[k].kind = "opened"

\* A thunk calling a twin found in the module, whose signature has both an
\* original parameter and two added ones.
C11_Witness ==
    /\ pc = "done"
    /\ CacheHit
    /\ getNextDepth(origF.ty.sig) >= 1
    /\ Cardinality(DOMAIN GenericToOpenedTypeMap) = 2
    /\ Len(SubMap) >= 3

(***************************************************************************)
(* The thunk's unboxing of opaque existentials.                            *)
(***************************************************************************)
\* The positions of the instructions of insts with opcode op and source src.
InstsAt(insts, op, src) ==
    {k \in 1..Len(insts) : insts[k].op = op /\ insts[k].src = src}

\* The positions of the instructions of insts with opcode op and result dst.
InstsMaking(insts, op, dst) ==
    {k \in 1..Len(insts) : insts[k].op = op /\ insts[k].dst = dst}

\* The Temps that mention one of the values vals.
TempsOf(vals) ==
    {k \in 1..Len(Temps) :
       Temps[k].DeallocStackEntry \in vals \/ Temps[k].DestroyValue \in vals}

\* C12: in the thunk, every transformed argument of opaque representation is
\* opened in place, once, with the access mode of its descriptor.  If the
\* argument was originally consumed a stack slot is allocated after the
\* open, the opened value is copied (not moved) into it, the slot is what the
\* call receives at that position and exactly one Temp is registered, with
\* the slot to deallocate and the boxed argument to destroy.  If it was not
\* consumed there is no slot and no copy, the call receives the opened
\* address and no Temp is registered for the argument.
C12_ThunkOpaqueUnboxing ==
    pc = "done" =>
      \A p \in TransformedIdxs :
        origF.args[p].ty.repr = "Opaque" =>
          LET insts == F.blocks[1].insts
              boxed == V("arg", p)
              opens == InstsAt(insts, "open_existential_addr", boxed)
              o == CHOOSE k \in opens : TRUE
              opened == insts[o].dst
              copies == InstsAt(insts, "copy_addr", opened)
              c == CHOOSE k \in copies : TRUE
              slot == insts[c].dst
              mine == TempsOf({boxed, opened, V("alloc", p)})
          IN /\ Cardinality(opens) = 1
             /\ insts[o].flag = ETADOf(p).AccessType
             /\ IF ETADOf(p).isConsumed
                THEN /\ Cardinality(copies) = 1
                     /\ insts[c].flag = "copy"
                     /\ Cardinality(InstsMaking(insts, "alloc_stack", slot)) = 1
                     /\ \A a \in InstsMaking(insts, "alloc_stack", slot) :
                          o < a /\ a < c
                     /\ HandedArgs(F.blocks)[p] = slot
                     /\ ApplyArgs[p] = slot
                     /\ Cardinality(mine) = 1
                     /\ \A t \in mine :
                          Temps[t] = Temp(slot, boxed)
                ELSE /\ copies = {}
                     /\ InstsMaking(insts, "alloc_stack", V("alloc", p)) = {}
                     /\ HandedArgs(F.blocks)[p] = opened
                     /\ ApplyArgs[p] = opened
                     /\ mine = {}

\* A thunk that has unboxed a consumed and a borrowed opaque argument.
C12_Witness ==
    /\ pc = "done"
    /\ \E p \in TransformedIdxs :
         origF.args[p].ty.repr = "Opaque" /\ ETADOf(p).isConsumed
    /\ \E p \in TransformedIdxs :
         origF.args[p].ty.repr = "Opaque" /\ ~ETADOf(p).isConsumed
    /\ Len(Temps) = 1

(***************************************************************************)
(* The twin's boxing of class existentials.                                *)
(***************************************************************************)
\* The transformed positions of class representation.
ClassIdxs == {p \in TransformedIdxs : origF.args[p].ty.repr = "Class"}

\* The generic argument at position p is passed by address.
ByAddress(p) == origF.args[p].category = "address"

\* The ownership kind of the twin's argument at position p.
OwnershipOf(p) ==
    ValueOwnershipKind(origF.args[p].category, origF.ty.params[p].conv)

\* The boxed reference made for position p in the twin's entry block.
BoxedRefs(p) ==
    LET insts == Twin.blocks[1].insts IN
    {insts[k].dst : k \in {j \in 1..Len(insts) :
                             /\ insts[j].op = "init_existential_ref"
                             /\ insts[j].dst = V("initref", p)}}

\* The load of the generic argument at position p is there exactly when the
\* argument is passed by address, and its qualifier is qual.
LoadedWith(p, qual) ==
    LET insts == Twin.blocks[1].insts
        loads == InstsAt(insts, "load", V("arg", p))
    IN IF ByAddress(p)
       THEN Cardinality(loads) = 1 /\ \A k \in loads : insts[k].flag = qual
       ELSE loads = {}

\* The boxed reference of position p is stored into a fresh slot registered
\* for deallocation exactly when the argument is passed by address; the
\* cloned body gets the slot then and the boxed reference otherwise.
Respilled(p) ==
    LET insts == Twin.blocks[1].insts
        InitRef == V("initref", p)
        stores == InstsAt(insts, "store", InitRef)
        slots == {insts[k].dst : k \in stores}
    IN /\ BoxedRefs(p) = {InitRef}
       /\ IF ByAddress(p)
          THEN /\ Cardinality(stores) = 1
               /\ \A slot \in slots :
                    /\ Cardinality(InstsMaking(insts, "alloc_stack", slot)) = 1
                    /\ Cardinality({k \in 1..Len(AllocStackInsts) :
                                      AllocStackInsts[k] = slot}) = 1
                    /\ HandedArgs(Twin.blocks)[p] = slot
                    /\ entryArgs[p] = slot
          ELSE /\ stores = {}
               /\ InstsMaking(insts, "alloc_stack", V("alloc", p)) = {}
               /\ V("alloc", p) \notin SeqRange(AllocStackInsts)
               /\ HandedArgs(Twin.blocks)[p] = InitRef
               /\ entryArgs[p] = InitRef

\* The argument at position p is copied, the copy is what is boxed, and the
\* boxed copy is destroyed at every exit of the twin.
OwningCopy(p) ==
    LET insts == Twin.blocks[1].insts
        copies == InstsAt(insts, "copy_value", V("arg", p))
        InitRef == V("initref", p)
    IN /\ Cardinality(copies) = 1
       /\ \A k \in copies :
            \E j \in InstsAt(insts, "init_existential_ref", insts[k].dst) :
              k < j /\ insts[j].dst = InitRef
       /\ Cardinality({k \in 1..Len(CleanupValues) : CleanupValues[k] = InitRef}) = 1
       /\ \A b \in TwinExitBlocks :
            Count(Twin.blocks[b].insts, "destroy", InitRef) = 1

\* No copy of the argument at position p is made and nothing is registered
\* for destruction for it.
NoOwningCopy(p) ==
    /\ InstsAt(Twin.blocks[1].insts, "copy_value", V("arg", p)) = {}
    /\ V("initref", p) \notin SeqRange(CleanupValues)
    /\ \A b \in TwinExitBlocks :
         Count(Twin.blocks[b].insts, "destroy", V("initref", p)) = 0

\* As claimed: an argument passed by address is loaded as a move when it was
\* consumed and as a copy when it was not, and an argument of unowned
\* ownership gets an owning copy destroyed at every exit.
C13_LoadCopiesWhenBorrowed ==
    ClonerRan =>
      \A p \in ClassIdxs :
        /\ LoadedWith(p, IF ETADOf(p).isConsumed THEN "take" ELSE "copy")
        /\ Respilled(p)
        /\ OwnershipOf(p) = "Unowned" => OwningCopy(p)

\* C13: in the twin's entry block, for every transformed argument of class
\* representation: an argument passed by address is loaded, as a copy when
\* the function has ownership and the original argument was not consumed
\* and as a move in every other case (so always as a move without
\* ownership); the boxed reference is stored into a fresh stack slot
\* registered for deallocation if and only if the argument is passed by
\* address, and the cloned body gets that slot then and the boxed reference
\* otherwise; when the function has ownership an argument of unowned
\* ownership is copied, the copy is what is boxed and the boxed copy is
\* destroyed at every exit; no other argument is copied or registered for
\* destruction.
C13_ClassBoxing ==
    ClonerRan =>
      \A p \in ClassIdxs :
        /\ LoadedWith(p, IF Twin.hasOwnership /\ ~ETADOf(p).isConsumed
                         THEN "copy" ELSE "take")
        /\ Respilled(p)
        /\ IF Twin.hasOwnership /\ OwnershipOf(p) = "Unowned"
           THEN OwningCopy(p)
           ELSE NoOwningCopy(p)

\* The cloner has boxed, in a function without ownership, a borrowed class
\* existential passed by address and one of unowned ownership.
C13_Witness ==
    /\ ClonerRan
    /\ ~Twin.hasOwnership
    /\ \E p \in ClassIdxs : ByAddress(p) /\ ~ETADOf(p).isConsumed
    /\ \E p \in ClassIdxs : OwnershipOf(p) = "Unowned"

(***************************************************************************)
(* The arguments of the thunk's call.                                      *)
(***************************************************************************)
\* The values of the thunk that hold its argument at position p: the argument
\* itself and what is loaded or copied from it.
ReadFrom(p) ==
    LET insts == F.blocks[1].insts IN
    {V("arg", p)}
    \cup {insts[k].dst : k \in {j \in 1..Len(insts) :
                                  /\ insts[j].op \in {"load", "copy_value"}
                                  /\ insts[j].src = V("arg", p)}}

\* The values opened from the thunk's argument at position p.
OpenedFrom(p) ==
    LET insts == F.blocks[1].insts IN
    {insts[k].dst :
       k \in {j \in 1..Len(insts) :
                /\ insts[j].op \in {"open_existential_addr", "open_existential_ref"}
                /\ insts[j].src \in ReadFrom(p)}}

\* The stack slots of the thunk that an opened value of position p is
\* copied or stored into.
SlotsOf(p) ==
    LET insts == F.blocks[1].insts IN
    {insts[k].dst :
       k \in {j \in 1..Len(insts) :
                /\ insts[j].op \in {"copy_addr", "store"}
                /\ insts[j].src \in OpenedFrom(p)
                /\ insts[j].dst \in AllocatedSlots(insts)}}

\* Position p is rewritten by the thunk: the call does not get the thunk's
\* own argument there.
ThunkTransforms(p) == ApplyArgs[p] # V("arg", p)

\* Position p is rewritten by the body cloner: the twin's argument is of
\* archetype type and the cloned body gets a boxed value there.
ClonerTransforms(p) ==
    /\ Twin.args[p].ty.kind = "archetype"
    /\ HandedArgs(Twin.blocks)[p] # V("arg", p)

\* Position p is left alone by the body cloner.
ClonerKeeps(p) ==
    /\ Twin.args[p].ty = origF.args[p].ty
    /\ HandedArgs(Twin.blocks)[p] = V("arg", p)

\* Position p is rewritten by the function type builder.
TypeBuilderTransforms(p) == NewFTy.params[p].ty.kind = "generic"

\* C14: the call of the twin in the thunk has one argument per original
\* parameter, in parameter order: at a position that is not transformed the
\* thunk's own entry argument of that position, which the thunk does not
\* open; at a transformed position one value unboxed from the argument of
\* that position, the opened value or the slot it was put into.  The thunk
\* rewrites a position exactly when the body cloner and the function type
\* builder rewrite it, and no position is rewritten by one and kept by
\* another.
C14_CallArguments ==
    pc = "done" =>
      /\ Len(ApplyArgs) = Len(origF.args)
      /\ HandedArgs(F.blocks) = ApplyArgs
      /\ Len(NewFTy.params) = Len(origF.args)
      /\ Len(Twin.args) = Len(origF.args)
      /\ \A p \in 1..Len(origF.args) :
           /\ IF p \in TransformedIdxs
              THEN /\ Cardinality(OpenedFrom(p)) = 1
                   /\ ApplyArgs[p] \in OpenedFrom(p) \cup SlotsOf(p)
              ELSE /\ ApplyArgs[p] = V("arg", p)
                   /\ OpenedFrom(p) = {}
                   /\ \A k \in 1..Len(F.blocks[1].insts) :
                        F.blocks[1].insts[k].src # V("arg", p)
           /\ ThunkTransforms(p) <=> p \in TransformedIdxs
           /\ ThunkTransforms(p) <=> TypeBuilderTransforms(p)
           /\ ThunkTransforms(p) <=> ClonerTransforms(p)
           /\ ~ThunkTransforms(p) <=> ClonerKeeps(p)
           /\ ~TypeBuilderTransforms(p) <=> NewFTy.params[p] = origF.ty.params[p]

\* A thunk whose call forwards its first argument and passes a value unboxed
\* from its second.
C14_Witness ==
    /\ pc = "done"
    /\ Len(ApplyArgs) = NumArgs
    /\ ApplyArgs[1] = V("arg", 1)
    /\ 2 \in TransformedIdxs
    /\ ApplyArgs[2] \in SlotsOf(2)

====
